---------------------------- MODULE Spec2Model ----------------------------
(***************************************************************************)
(* The IDE channel driver of kernel/disk/ide.rs: the DMA request queue and *)
(* completion engine (request / on_poll / next_request), the PRDT builder  *)
(* inside next_request, and the PIO path (ata_pio / ata_pio_small).        *)
(***************************************************************************)
EXTENDS Integers, Sequences, FiniteSets, TLC

(***************************************************************************)
(* Bounds of the model.                                                    *)
(***************************************************************************)
\* number of requests submitted to the channel in one behaviour
MaxReq == 3
\* the same, in the behaviours checked for liveness
MaxLiveReq == 2

(***************************************************************************)
(* Program constants (ide.rs).                                             *)
(***************************************************************************)
CMD_DIR == 8
CMD_ACT == 1
STS_INT == 4
STS_ERR == 2
STS_ACT == 1
PRD_EOT == 32768

ATA_SR_BSY == 128
ATA_SR_DRDY == 64
ATA_SR_DF == 32
ATA_SR_DRQ == 8
ATA_SR_ERR == 1

ATA_CMD_READ_PIO_EXT == 36
ATA_CMD_READ_DMA_EXT == 37
ATA_CMD_WRITE_PIO_EXT == 52
ATA_CMD_WRITE_DMA_EXT == 53
ATA_CMD_CACHE_FLUSH_EXT == 234
ATA_CMD_IDENTIFY == 236

ATA_REG_DATA == 0
ATA_REG_SECCOUNT0 == 2
ATA_REG_LBA0 == 3
ATA_REG_LBA1 == 4
ATA_REG_LBA2 == 5
ATA_REG_HDDEVSEL == 6
ATA_REG_COMMAND == 7
ATA_REG_STATUS == 7
ATA_REG_SECCOUNT1 == 8
ATA_REG_LBA3 == 9
ATA_REG_LBA4 == 10
ATA_REG_LBA5 == 11
ATA_REG_ALTSTATUS == 12

\* the literals of next_request's PRDT loop and of the PIO chunking
SectorBytes == 512
PrdBytes == 65536
PrdtEntries == 8192
PioChunkSectors == 65536
SectorWords == 256

(***************************************************************************)
(* Bit arithmetic on register values; b is a power of two.                 *)
(***************************************************************************)
HasBit(v, b) == (v \div b) % 2 = 1
ClearBit(v, b) == IF HasBit(v, b) THEN v - b ELSE v
SetBit(v, b) == IF HasBit(v, b) THEN v ELSE v + b
\* (x >> s) & 0xFF as u8, with d = 2^s
Byte(x, d) == (x \div d) % 256

(***************************************************************************)
(* State.  The fields of IdeDisk keep their names; the hardware behind the *)
(* ports and the observations used by the properties follow.               *)
(***************************************************************************)
VARIABLES
    \* IdeDisk
    base,        \* command block base port
    ctrl,        \* control block base port
    master,      \* master / slave position
    busmaster,   \* port of the bus-master command register (Pio8 cmd)
    prdt,        \* TRUE iff Prdt::new returned Some
    request,     \* Intex<Option<Request>>: 0 is None, else the request's id
    requests,    \* Intex<VecDeque<Request>>: ids, front first
    \* requests handed to the driver: submitted[id] is the Request, complete[id]
    \* its Arc<AtomicBool>
    submitted,
    complete,
    \* position of the kernel thread inside IdeDisk::request, and whether the
    \* processor is caught in the wait of next_request that never re-reads
    pc,
    hung,
    \* hardware: bus-master command/status registers, PRDT address register,
    \* PRDT memory, the ATA task-file ports (current and previous byte written)
    \* and whether the drive is carrying out a DMA transfer
    cmd,
    sts,
    prdt_reg,
    prdt_mem,
    io,
    xfer,
    \* observations: driver stores per completion flag, ids whose transfer was
    \* started (in order), the last driver operation and its port accesses
    stores,
    started,
    op,
    ops,
    \* PRDT builder and PIO path, run on their own (see the end of the module)
    bld,
    pio,
    \* the bus scan of Ide::disks, the two Intex locks of a channel taken step
    \* by step, an Extent and its empty(), and a PCI function's configuration
    \* space (each used by a specification of its own)
    scan,
    lk,
    ext,
    pci,
    \* the two waits of next_request taken one loop iteration at a time
    wt,
    \* the IdeDisk of the other drive on the same cable, and which drive's
    \* transfers have raised INT (used by the specification of a cable)
    pair

engineVars == <<base, ctrl, master, busmaster, prdt, request, requests, submitted,
                complete, pc, hung, cmd, sts, prdt_reg, prdt_mem, io, xfer,
                stores, started, op, ops>>
otherVars == <<scan, lk, ext, pci, wt, pair>>
vars == <<engineVars, bld, pio, otherVars>>

(***************************************************************************)
(* Inputs.                                                                 *)
(***************************************************************************)
\* value of the PCI BAR read by Ide::disks (pci.read(0x20) & 0xFFF0)
BusMasterBars == {49152}

\* the four positions probed by Ide::disks
Positions ==
    { [busmaster |-> 0, base |-> 496, ctrl |-> 1012, irq |-> 14, master |-> TRUE],
      [busmaster |-> 0, base |-> 496, ctrl |-> 1012, irq |-> 14, master |-> FALSE],
      [busmaster |-> 8, base |-> 368, ctrl |-> 884, irq |-> 15, master |-> TRUE],
      [busmaster |-> 8, base |-> 368, ctrl |-> 884, irq |-> 15, master |-> FALSE] }

\* a memory address is kept as its two halves, hi * 65536 + lo
Mem(hi, lo) == [hi |-> hi, lo |-> lo]
MemIsZero(m) == m.hi = 0 /\ m.lo = 0

\* largest transfer the PRDT can describe
MaxDmaBytes == PrdtEntries * PrdBytes

\* the requests a caller may submit
Requests ==
    { [extent |-> [block |-> 100, length |-> 4096], mem |-> Mem(16, 0), read |-> TRUE],
      [extent |-> [block |-> 200, length |-> 4096], mem |-> Mem(32, 0), read |-> TRUE],
      [extent |-> [block |-> 16777216 + 770, length |-> PrdBytes + 100],
       mem |-> Mem(65535, 4096), read |-> FALSE],
      [extent |-> [block |-> 300, length |-> 4096], mem |-> Mem(0, 0), read |-> TRUE],
      [extent |-> [block |-> 400, length |-> 0], mem |-> Mem(48, 0), read |-> FALSE],
      [extent |-> [block |-> 500, length |-> MaxDmaBytes + 1], mem |-> Mem(64, 0),
       read |-> TRUE],
      [extent |-> [block |-> 600, length |-> MaxDmaBytes], mem |-> Mem(80, 0),
       read |-> FALSE] }

\* values the ATA status register may show: ready (DRDY, DSC), busy, not
\* ready, and ready with ERR or with DF
AtaStatusValues ==
    {ATA_SR_DRDY + 16, ATA_SR_BSY, 0, ATA_SR_DRDY + 16 + ATA_SR_ERR,
     ATA_SR_DRDY + 16 + ATA_SR_DF}

(***************************************************************************)
(* The driver and the hardware it touches, as one record that the          *)
(* statements of a handler transform in program order.                     *)
(***************************************************************************)
Cur ==
    [request |-> request, requests |-> requests, complete |-> complete,
     stores |-> stores, started |-> started, hung |-> hung, cmd |-> cmd,
     sts |-> sts, prdt_reg |-> prdt_reg, prdt_mem |-> prdt_mem, io |-> io,
     xfer |-> xfer, ops |-> <<>>, master |-> master]

Becomes(d) ==
    /\ request' = d.request
    /\ requests' = d.requests
    /\ complete' = d.complete
    /\ stores' = d.stores
    /\ started' = d.started
    /\ hung' = d.hung
    /\ cmd' = d.cmd
    /\ sts' = d.sts
    /\ prdt_reg' = d.prdt_reg
    /\ prdt_mem' = d.prdt_mem
    /\ io' = d.io
    /\ xfer' = d.xfer
    /\ ops' = d.ops

In(port) == [op |-> "in", port |-> port, val |-> -1]
Out(port, v) == [op |-> "out", port |-> port, val |-> v]

(***************************************************************************)
(* Register access layer.                                                  *)
(***************************************************************************)
\* port behind an ATA register number, as ide_read and ide_write compute it
ide_port(reg) ==
    IF reg < 8 THEN base + reg - 0
    ELSE IF reg < 12 THEN base + reg - 6
    ELSE ctrl + reg - 10

TaskFilePorts == {base + k : k \in 0..7} \cup {ctrl + 2, ctrl + 3}

ide_read(d, reg) ==
    IF reg < 14 THEN [d EXCEPT !.ops = Append(@, In(ide_port(reg)))] ELSE d

\* the drive keeps the byte written before the last one (48-bit task file)
ide_write(d, reg, data) ==
    IF reg < 14
    THEN [d EXCEPT !.io[ide_port(reg)] = [cur |-> data, prev |-> @.cur],
                   !.ops = Append(@, Out(ide_port(reg), data))]
    ELSE d

\* self.cmd, self.sts and prdt.reg
cmd_port == busmaster
sts_port == busmaster + 2
prdt_port == busmaster + 4

cmd_read(d) == [d EXCEPT !.ops = Append(@, In(cmd_port))]

DmaCommands == {ATA_CMD_READ_DMA_EXT, ATA_CMD_WRITE_DMA_EXT}

\* the bus master runs while ACT is set; a drive holding a DMA command then
\* carries the transfer out
cmd_write(d, v) ==
    [d EXCEPT !.cmd = v,
              !.sts = IF HasBit(v, CMD_ACT) THEN SetBit(@, STS_ACT)
                      ELSE ClearBit(@, STS_ACT),
              !.xfer = HasBit(v, CMD_ACT)
                       /\ d.io[ide_port(ATA_REG_COMMAND)].cur \in DmaCommands,
              !.ops = Append(@, Out(cmd_port, v))]

sts_read(d) == [d EXCEPT !.ops = Append(@, In(sts_port))]

\* INT and ERR are cleared by writing 1 to them; ACT is read-only
sts_write(d, v) ==
    LET a == IF HasBit(v, STS_INT) THEN ClearBit(d.sts, STS_INT) ELSE d.sts
        b == IF HasBit(v, STS_ERR) THEN ClearBit(a, STS_ERR) ELSE a
    IN [d EXCEPT !.sts = b, !.ops = Append(@, Out(sts_port, v))]

prdt_reg_write(d, v) ==
    [d EXCEPT !.prdt_reg = v, !.ops = Append(@, Out(prdt_port, v))]

(***************************************************************************)
(* PRDT build of next_request.                                             *)
(***************************************************************************)
\* AddrU32 giving every entry the address of the request
AddrU32_NoStride(m, i) == [hi |-> m.hi % 65536, lo |-> m.lo]

\* (req.mem + i * 65536) as u32, on the two halves of the address
AddrU32(m, i) == [hi |-> (m.hi + i) % 65536, lo |-> m.lo]
\* size as u16
AsU16(x) == x % 65536

\* the while loop on its counters: iteration k runs iff
\* size0 - k * 65536 >= 65536 and k < 8192, so it runs
\* min(size0 / 65536, 8192) times, taking 65536 off size and adding 1 to i
PrdtWhile(size0) ==
    LET n == IF size0 \div PrdBytes < PrdtEntries THEN size0 \div PrdBytes
             ELSE PrdtEntries
    IN [size |-> size0 - n * PrdBytes, i |-> n]

\* PrdFull with EOT never set in the while loop
PrdFull_NeverEot(m, size0, k) == [addr |-> AddrU32(m, k), size |-> 0, eot |-> 0]

\* the Prd stored by iteration k of the while loop; size is size0 - k * 65536
\* when iteration k runs
PrdFull(m, size0, k) ==
    [addr |-> AddrU32(m, k), size |-> 0,
     eot |-> IF size0 - k * PrdBytes = PrdBytes THEN PRD_EOT ELSE 0]

\* the Prd stored after the loop, at index k with size left
PrdTail(m, size, k) == [addr |-> AddrU32(m, k), size |-> AsU16(size), eot |-> PRD_EOT]

\* PRDT memory is kept as the builds that stored into it, latest first: a
\* build for req.mem = mem and size = size0 stored entries 0 .. n-1, the first
\* `full` of them in the while loop.  Entries no longer visible are dropped.
PrdOf(l, k) ==
    IF k < l.full THEN PrdFull(l.mem, l.size0, k)
    ELSE PrdTail(l.mem, l.size0 - l.full * PrdBytes, k)

\* prdt.mem at index k
prdt_load(table, k) ==
    LET vis == SelectSeq(table, LAMBDA l : k < l.n)
    IN IF vis = <<>> THEN "uninitialised" ELSE PrdOf(Head(vis), k)

\* indices of PRDT memory that have been stored to
prdt_stored(table) == IF table = <<>> THEN {} ELSE 0 .. (table[Len(table)].n - 1)

\* BuildPrdt without the test of the size left over (prdt_set whenever i > 0)
BuildPrdt_NoSizeTest(table, r) ==
    LET sectors == (r.extent.length + 511) \div SectorBytes
        size0 == sectors * SectorBytes
        w == PrdtWhile(size0)
        tail == w.size > 0 /\ w.i < PrdtEntries
        i == IF tail THEN w.i + 1 ELSE w.i
        size == IF tail THEN 0 ELSE w.size
    IN [mem |-> IF i = 0 THEN table
                ELSE <<[mem |-> r.mem, size0 |-> size0, full |-> w.i, n |-> i]>>
                     \o SelectSeq(table, LAMBDA l : i < l.n),
        i |-> i,
        size |-> size,
        sectors |-> sectors,
        prdt_set |-> i > 0]

\* table: PRDT memory before; r: the request.  The result is the memory after,
\* the final i and size, and prdt_set
BuildPrdt(table, r) ==
    LET sectors == (r.extent.length + 511) \div SectorBytes
        size0 == sectors * SectorBytes
        w == PrdtWhile(size0)
        tail == w.size > 0 /\ w.i < PrdtEntries
        i == IF tail THEN w.i + 1 ELSE w.i
        size == IF tail THEN 0 ELSE w.size
    IN [mem |-> IF i = 0 THEN table
                ELSE <<[mem |-> r.mem, size0 |-> size0, full |-> w.i, n |-> i]>>
                     \o SelectSeq(table, LAMBDA l : i < l.n),
        i |-> i,
        size |-> size,
        sectors |-> sectors,
        prdt_set |-> i > 0 /\ size = 0]

(***************************************************************************)
(* Request queue and completion engine.                                    *)
(***************************************************************************)
\* req.complete.store(true, Ordering::SeqCst)
complete_store(d, id) ==
    [d EXCEPT !.complete[id] = TRUE, !.stores[id] = @ + 1]

\* finish_current without the store to the completion flag
finish_current_NoStore(d) ==
    IF d.request # 0
    THEN cmd_write(cmd_read(d), ClearBit(d.cmd, 1))
    ELSE d

\* first part of next_request: the current request, if any, is treated as
\* completed
finish_current(d) ==
    IF d.request # 0
    THEN complete_store(cmd_write(cmd_read(d), ClearBit(d.cmd, 1)), d.request)
    ELSE d

\* pop_front taking the back of the queue
pop_front_Back(d) ==
    IF d.requests = <<>>
    THEN [d EXCEPT !.request = 0]
    ELSE [d EXCEPT !.request = d.requests[Len(d.requests)],
                   !.requests = SubSeq(d.requests, 1, Len(d.requests) - 1)]

\* pop_front leaving the front in the queue
pop_front_Peek(d) ==
    IF d.requests = <<>>
    THEN [d EXCEPT !.request = 0]
    ELSE [d EXCEPT !.request = Head(d.requests)]

\* *request = requests.pop_front()
pop_front(d) ==
    IF d.requests = <<>>
    THEN [d EXCEPT !.request = 0]
    ELSE [d EXCEPT !.request = Head(d.requests), !.requests = Tail(d.requests)]

\* program_taskfile writing the low-order bytes before the high-order bytes
program_taskfile_LowFirst(d, r, sectors) ==
    LET a == ide_write(d, ATA_REG_HDDEVSEL, IF d.master THEN 64 ELSE 80)
        g == ide_write(a, ATA_REG_SECCOUNT0, Byte(sectors, 1))
        h == ide_write(g, ATA_REG_LBA0, Byte(r.extent.block, 1))
        i == ide_write(h, ATA_REG_LBA1, Byte(r.extent.block, 256))
        j == ide_write(i, ATA_REG_LBA2, Byte(r.extent.block, 65536))
        b == ide_write(j, ATA_REG_SECCOUNT1, Byte(sectors, 256))
        c == ide_write(b, ATA_REG_LBA3, Byte(r.extent.block, 16777216))
        e == ide_write(c, ATA_REG_LBA4, 0)
    IN ide_write(e, ATA_REG_LBA5, 0)

\* the task file of a 48-bit DMA command: high-order bytes first
program_taskfile(d, r, sectors) ==
    LET a == ide_write(d, ATA_REG_HDDEVSEL, IF d.master THEN 64 ELSE 80)
        b == ide_write(a, ATA_REG_SECCOUNT1, Byte(sectors, 256))
        c == ide_write(b, ATA_REG_LBA3, Byte(r.extent.block, 16777216))
        \* block >> 32 and block >> 40 of a block below 2^31
        e == ide_write(c, ATA_REG_LBA4, 0)
        f == ide_write(e, ATA_REG_LBA5, 0)
        g == ide_write(f, ATA_REG_SECCOUNT0, Byte(sectors, 1))
        h == ide_write(g, ATA_REG_LBA0, Byte(r.extent.block, 1))
        i == ide_write(h, ATA_REG_LBA1, Byte(r.extent.block, 256))
    IN ide_write(i, ATA_REG_LBA2, Byte(r.extent.block, 65536))

\* `status` is read once, before the loop that tests it: a drive that is busy
\* or not ready at that read is waited for without end
wait_ready(d, status) ==
    [d EXCEPT !.ops = Append(@, In(ide_port(ATA_REG_STATUS))),
              !.hung = HasBit(status, ATA_SR_BSY) \/ ~HasBit(status, ATA_SR_DRDY)]

\* start_transfer writing the bus-master command register without ACT
start_transfer_NoAct(d, r) ==
    IF d.hung THEN d
    ELSE [cmd_write(ide_write(d, ATA_REG_COMMAND,
                              IF r.read THEN ATA_CMD_READ_DMA_EXT
                              ELSE ATA_CMD_WRITE_DMA_EXT),
                    IF r.read THEN CMD_DIR ELSE 0)
          EXCEPT !.started = Append(@, d.request)]

\* the command and the start of the bus master, unless the wait never ends
start_transfer(d, r) ==
    IF d.hung THEN d
    ELSE [cmd_write(ide_write(d, ATA_REG_COMMAND,
                              IF r.read THEN ATA_CMD_READ_DMA_EXT
                              ELSE ATA_CMD_WRITE_DMA_EXT),
                    IF r.read THEN CMD_ACT + CMD_DIR ELSE CMD_ACT)
          EXCEPT !.started = Append(@, d.request)]

\* program_dma that goes on whether or not prdt_set
program_dma_IgnoresPrdtSet(d, r, t, status) ==
    start_transfer(
        wait_ready(
            program_taskfile(
                prdt_reg_write([d EXCEPT !.prdt_mem = t.mem], "prdt.mem.ptr"),
                r, t.sectors),
            status),
        r)

\* the PRDT t was built over the state d: its address is written and the
\* transfer started only if prdt_set
program_dma(d, r, t, status) ==
    IF ~t.prdt_set
    THEN [d EXCEPT !.prdt_mem = t.mem]
    ELSE start_transfer(
             wait_ready(
                 program_taskfile(
                     prdt_reg_write([d EXCEPT !.prdt_mem = t.mem], "prdt.mem.ptr"),
                     r, t.sectors),
                 status),
             r)

\* second part of next_request, for the request r just popped.  The wait for
\* BSY re-reads the register and ends with a read that shows BSY clear;
\* status is what the read before the second wait returns
start_request(d, r, status) ==
    LET b == ide_read(cmd_write(cmd_read(d), IF r.read THEN CMD_DIR ELSE 0),
                      ATA_REG_STATUS)
    IN IF MemIsZero(r.mem) \/ ~prdt THEN b
       ELSE program_dma(b, r, BuildPrdt(d.prdt_mem, r), status)

\* next_request entered in state d, as the step that leaves its final state
\* behind; R: the values the status read before the second wait may return
next_request(d, R) ==
    \E a \in {pop_front(finish_current(d))} :
        IF a.request # 0
        THEN \E status \in R :
                \E b \in {start_request(a, submitted[a.request], status)} : Becomes(b)
        ELSE Becomes(a)

\* IdeDisk::request, in the three steps between which the interrupt handler
\* may run: the push under the queue's lock, the test under the current
\* request's lock, and next_request
request_push(r) ==
    /\ pc = "idle" /\ ~hung
    /\ Len(submitted) < MaxReq
    /\ submitted' = Append(submitted, r)
    /\ Becomes([Cur EXCEPT !.requests = Append(@, Len(submitted) + 1),
                           !.complete = Append(@, FALSE),
                           !.stores = Append(@, 0)])
    /\ pc' = "pushed"
    /\ op' = "request:push"
    /\ UNCHANGED <<base, ctrl, master, busmaster, prdt, bld, pio, otherVars>>

\* request_check that ends the call whatever the current request is
request_check_Never ==
    /\ pc = "pushed" /\ ~hung
    /\ pc' = "idle"
    /\ Becomes(Cur)
    /\ op' = "request:check"
    /\ UNCHANGED <<base, ctrl, master, busmaster, prdt, submitted, bld, pio, otherVars>>

\* request_check that calls next_request whatever the current request is
request_check_Always ==
    /\ pc = "pushed" /\ ~hung
    /\ pc' = "is_none"
    /\ Becomes(Cur)
    /\ op' = "request:check"
    /\ UNCHANGED <<base, ctrl, master, busmaster, prdt, submitted, bld, pio, otherVars>>

request_check ==
    /\ pc = "pushed" /\ ~hung
    /\ pc' = IF request = 0 THEN "is_none" ELSE "idle"
    /\ Becomes(Cur)
    /\ op' = "request:check"
    /\ UNCHANGED <<base, ctrl, master, busmaster, prdt, submitted, bld, pio, otherVars>>

request_advance(R) ==
    /\ pc = "is_none" /\ ~hung
    /\ next_request(Cur, R)
    /\ pc' = "idle"
    /\ op' = "request:next_request"
    /\ UNCHANGED <<base, ctrl, master, busmaster, prdt, submitted, bld, pio, otherVars>>

\* on_poll testing the ACT bit of the status register
on_poll_TestsAct(R) ==
    /\ ~hung
    /\ LET a == sts_read(Cur)
       IN IF HasBit(sts, STS_ACT)
          THEN next_request(sts_write(a, sts), R)
          ELSE Becomes(a)
    /\ op' = "on_poll"
    /\ UNCHANGED <<base, ctrl, master, busmaster, prdt, submitted, pc, bld, pio, otherVars>>

\* on_poll that does not write the status back
on_poll_NoAck(R) ==
    /\ ~hung
    /\ LET a == sts_read(Cur)
       IN IF HasBit(sts, STS_INT)
          THEN next_request(a, R)
          ELSE Becomes(a)
    /\ op' = "on_poll"
    /\ UNCHANGED <<base, ctrl, master, busmaster, prdt, submitted, pc, bld, pio, otherVars>>

\* on_poll that leaves a transfer flagged ERR by the bus master alone
on_poll_ChecksErr(R) ==
    /\ ~hung
    /\ LET a == sts_read(Cur)
       IN IF HasBit(sts, STS_INT) /\ ~HasBit(sts, STS_ERR)
          THEN next_request(sts_write(a, sts), R)
          ELSE Becomes(a)
    /\ op' = "on_poll"
    /\ UNCHANGED <<base, ctrl, master, busmaster, prdt, submitted, pc, bld, pio, otherVars>>

\* IdeDisk::on_poll, run to its end at any point where the thread holds no lock
on_poll(R) ==
    /\ ~hung
    /\ LET a == sts_read(Cur)
       IN IF HasBit(sts, STS_INT)
          THEN next_request(sts_write(a, sts), R)
          ELSE Becomes(a)
    /\ op' = "on_poll"
    /\ UNCHANGED <<base, ctrl, master, busmaster, prdt, submitted, pc, bld, pio, otherVars>>

\* the drive ends the transfer it is carrying out: the bus master raises INT
\* and drops ACT, with ERR set when the transfer failed
hw_complete(err) ==
    /\ xfer
    /\ xfer' = FALSE
    /\ sts' = LET a == SetBit(ClearBit(sts, STS_ACT), STS_INT)
              IN IF err THEN SetBit(a, STS_ERR) ELSE a
    /\ UNCHANGED <<base, ctrl, master, busmaster, prdt, request, requests, submitted,
                   complete, pc, hung, cmd, prdt_reg, prdt_mem, io, stores,
                   started, op, ops, bld, pio, otherVars>>

(***************************************************************************)
(* The channel after IdeDisk::new: identify has selected the drive and     *)
(* issued IDENTIFY, nothing is queued.                                     *)
(***************************************************************************)
BldIdle ==
    [builds |-> 0, length |-> 0, mem |-> Mem(0, 0), table |-> <<>>,
     i |-> 0, size |-> 0, sectors |-> 0, prdt_set |-> FALSE]
PioIdle == [state |-> "off", call |-> <<>>, chunks |-> <<>>, ret |-> <<>>]
\* Ide::disks not called yet
ScanIdle == [done |-> FALSE, hw |-> <<>>, ident |-> <<>>, ret |-> <<>>]
\* both Intex free, the kernel thread and the dispatcher outside the driver
LkIdle == [requests |-> "free", request |-> "free", thread |-> "out", poll |-> "out"]
ExtIdle == [e |-> [block |-> 0, length |-> 0], called |-> FALSE, empty |-> FALSE]
\* a PCI function's configuration space before the driver touches it: the
\* offset latched by the address port, the COMMAND register, the writes that
\* went to ports outside the configuration data window, and the last call
PciIdle ==
    [address |-> 0, command |-> 0, stray |-> <<>>,
     last |-> [op |-> "none", value |-> 0, old |-> 0]]

\* no call of next_request under way; the drive shows BSY, as after a command
NoRequest == [extent |-> [block |-> 0, length |-> 0], mem |-> Mem(0, 0), read |-> FALSE]
WtIdle ==
    [pc |-> "out", caller |-> "none", r |-> NoRequest, ata |-> ATA_SR_BSY,
     status |-> 0, settled |-> FALSE, calls |-> 0, started |-> 0]

\* the other IdeDisk of the cable after IdeDisk::new, no INT raised yet
PairIdle ==
    [sib |-> [request |-> 0, requests |-> <<>>, submitted |-> <<>>, complete |-> <<>>,
              stores |-> <<>>, started |-> <<>>, prdt_mem |-> <<>>],
     raised |-> [self |-> {}, sib |-> {}], last |-> "none"]

EngineInit ==
    /\ \E p \in Positions, bar \in BusMasterBars :
          /\ base = p.base
          /\ ctrl = p.ctrl
          /\ master = p.master
          /\ busmaster = bar + p.busmaster
          /\ io = [q \in {p.base + k : k \in 0..7} \cup {p.ctrl + 2, p.ctrl + 3} |->
                     IF q = p.base + ATA_REG_HDDEVSEL
                     THEN [cur |-> IF p.master THEN 160 ELSE 176, prev |-> 0]
                     ELSE IF q = p.base + ATA_REG_COMMAND
                     THEN [cur |-> ATA_CMD_IDENTIFY, prev |-> 0]
                     ELSE [cur |-> 0, prev |-> 0]]
    /\ prdt \in BOOLEAN
    /\ request = 0
    /\ requests = <<>>
    /\ submitted = <<>>
    /\ complete = <<>>
    /\ pc = "idle"
    /\ hung = FALSE
    /\ cmd = 0
    /\ sts = 0
    /\ prdt_reg = "unset"
    /\ prdt_mem = <<>>
    /\ xfer = FALSE
    /\ stores = <<>>
    /\ started = <<>>
    /\ op = "new"
    /\ ops = <<>>

Init ==
    /\ EngineInit
    /\ bld = BldIdle /\ pio = PioIdle
    /\ scan = ScanIdle /\ lk = LkIdle /\ ext = ExtIdle /\ pci = PciIdle
    /\ wt = WtIdle /\ pair = PairIdle

Next ==
    \/ \E r \in Requests : request_push(r)
    \/ request_check
    \/ request_advance(AtaStatusValues)
    \/ on_poll(AtaStatusValues)
    \/ \E err \in BOOLEAN : hw_complete(err)

Spec == Init /\ [][Next]_vars

(***************************************************************************)
(* Properties of the request queue and completion engine.                  *)
(***************************************************************************)
Ids == 1 .. Len(submitted)
Range(q) == {q[k] : k \in 1 .. Len(q)}

\* a port write to one of the ports P is in the log
Wrote(log, P) == \E k \in 1 .. Len(log) : log[k].op = "out" /\ log[k].port \in P

\* descriptor entries a transfer of L bytes needs: whole sectors, 65536 bytes
\* per entry
EntriesNeeded(L) ==
    ((((L + SectorBytes - 1) \div SectorBytes) * SectorBytes) + PrdBytes - 1) \div PrdBytes

\* C1: completion flags are set in submission order: no state has a later
\* request's flag true while an earlier request's flag is false
C1_FifoCompletion ==
    \A i \in Ids : \A j \in Ids : (i < j /\ complete[j]) => complete[i]

\* three requests submitted, the first two completed and the third not yet
C1_Witness ==
    /\ Len(submitted) = 3
    /\ complete[1] /\ complete[2] /\ ~complete[3]
    /\ request = 3

\* C2: the driver stores to a request's completion flag at most once, the
\* stored value is true, and a true flag never becomes false
C2_FlagSetOnce ==
    /\ [](\A i \in Ids : stores[i] <= 1 /\ (complete[i] <=> stores[i] = 1))
    /\ [][\A i \in Ids : /\ complete[i] => complete'[i]
                         /\ stores'[i] >= stores[i]
                         /\ (stores'[i] > stores[i] => complete'[i])]_vars

\* two flags stored, by two different polls, with a third request running
C2_Witness ==
    /\ Len(submitted) = 3
    /\ stores[1] = 1 /\ stores[2] = 1 /\ stores[3] = 0
    /\ op = "on_poll" /\ xfer

\* C3: a request is made current, and its transfer started, only after every
\* request submitted before it has its flag set; so at most one started
\* request is not marked complete
C3_OneInFlight ==
    /\ \A id \in Range(started) : \A j \in 1 .. (id - 1) : complete[j]
    /\ request # 0 => \A j \in 1 .. (request - 1) : complete[j]
    /\ Cardinality({id \in Range(started) : ~complete[id]}) <= 1

\* the second transfer has been started, after the first was completed
C3_Witness ==
    /\ Len(started) = 2
    /\ complete[started[1]] /\ ~complete[started[2]]
    /\ xfer /\ HasBit(cmd, CMD_ACT)

\* C5: on_poll with the INT bit clear reads the status register and changes
\* nothing else
C5_PollWithoutIntIsNoop ==
    [][(on_poll(AtaStatusValues) /\ ~HasBit(sts, STS_INT)) =>
          /\ UNCHANGED <<request, requests, complete, stores, started, pc, hung,
                         cmd, sts, prdt_reg, prdt_mem, io, xfer, submitted>>
          /\ ops' = <<In(sts_port)>>]_vars

\* a poll found INT clear while a transfer was running and a request waiting
C5_Witness ==
    /\ op = "on_poll" /\ ops = <<In(sts_port)>>
    /\ request # 0 /\ requests # <<>> /\ xfer /\ ~HasBit(sts, STS_INT)

\* C7: a request that needs more than 8192 entries is made current without
\* the PRDT address register, the task file, the command register or ACT being
\* written; the PRDT address register is written only for a request whose
\* build succeeded
C7_OverflowNotStarted ==
    /\ [](Wrote(ops, {prdt_port}) =>
             /\ request # 0
             /\ EntriesNeeded(submitted[request].extent.length) \in 1 .. PrdtEntries)
    /\ [][(request' # request /\ request' # 0
            /\ EntriesNeeded(submitted[request'].extent.length) > PrdtEntries) =>
             /\ ~Wrote(ops', {prdt_port} \cup TaskFilePorts)
             /\ prdt_reg' = prdt_reg
             /\ io' = io
             /\ ~HasBit(cmd', CMD_ACT)
             /\ ~xfer'
             /\ request' \notin Range(started')]_vars

\* an oversized request became current after an earlier transfer had
\* programmed the PRDT address register
C7_Witness ==
    /\ request # 0
    /\ EntriesNeeded(submitted[request].extent.length) > PrdtEntries
    /\ prdt_reg = "prdt.mem.ptr"
    /\ op = "on_poll"

(***************************************************************************)
(* The engine over a register layer that always shows the drive ready and  *)
(* ends every transfer it is given.  The thread inside IdeDisk::request    *)
(* keeps running, the dispatcher keeps calling on_poll, the drive ends the *)
(* transfer it carries out; callers need not submit anything.              *)
(***************************************************************************)
ReadyStatus == {ATA_SR_DRDY + 16}

\* the primary cable, and one request of each sort
LiveInit == Init /\ base = 496
LiveRequests == {r \in Requests : r.extent.block # 200}

LiveNext ==
    \/ \E r \in LiveRequests : Len(submitted) < MaxLiveReq /\ request_push(r)
    \/ request_check
    \/ request_advance(ReadyStatus)
    \/ on_poll(ReadyStatus)
    \/ \E err \in BOOLEAN : hw_complete(err)

SpecLive ==
    /\ LiveInit
    /\ [][LiveNext]_vars
    /\ WF_vars(request_check)
    /\ WF_vars(request_advance(ReadyStatus))
    /\ WF_vars(on_poll(ReadyStatus))
    /\ WF_vars(\E err \in BOOLEAN : hw_complete(err))

\* non-null memory address and a length of 1 .. 8192 * 65536 bytes
Valid(r) == ~MemIsZero(r.mem) /\ r.extent.length \in 1 .. MaxDmaBytes

\* C4 as stated: every request submitted with a non-null address and a length
\* in range is eventually completed.  The statement is taken where it is most
\* likely to hold: the PRDT was allocated, and no request submitted earlier
\* had a null address or a length of zero
C4_EveryValidRequestCompletes ==
    \A id \in 1 .. MaxLiveReq :
        (/\ id \in Ids /\ Valid(submitted[id])
         /\ prdt
         /\ \A j \in 1 .. (id - 1) :
               ~MemIsZero(submitted[j].mem) /\ submitted[j].extent.length >= 1)
            ~> (id \in Ids /\ complete[id])

\* C4, amended: such a request is eventually completed when the PRDT was
\* allocated and every request submitted before it was valid as well
C4_ValidAfterValidCompletes ==
    \A id \in 1 .. MaxLiveReq :
        (id \in Ids /\ prdt /\ \A j \in 1 .. id : Valid(submitted[j]))
            ~> (id \in Ids /\ complete[id])

\* two valid requests, the second of the largest length, both completed
C4_Witness ==
    /\ Len(submitted) = 2
    /\ \A j \in 1 .. 2 : Valid(submitted[j]) /\ complete[j]
    /\ submitted[2].extent.length = MaxDmaBytes
    /\ submitted[1].extent.length = 4096

(***************************************************************************)
(* The PRDT build of next_request on its own: the table a channel keeps is *)
(* rebuilt for one request after another, each build storing over the      *)
(* entries of the builds before it.                                        *)
(***************************************************************************)
MaxBuilds == 2

BuildLengths ==
    {0, 1, 511, 512, 513, 4096, 65535, 65536, 65537, 100000, 131072, 131073,
     MaxDmaBytes - PrdBytes, MaxDmaBytes - SectorBytes,
     MaxDmaBytes - SectorBytes + 1, MaxDmaBytes - 1, MaxDmaBytes,
     MaxDmaBytes + 1, MaxDmaBytes + SectorBytes, MaxDmaBytes + PrdBytes,
     2 * MaxDmaBytes}

BuildMems == {Mem(16, 0), Mem(65535, 4096)}

\* lines 443-491 for a request of the given length and address, on a channel
\* whose PRDT was allocated
build_descriptors(length, mem) ==
    /\ prdt
    /\ bld.builds < MaxBuilds
    /\ \E t \in {BuildPrdt(bld.table,
                           [extent |-> [block |-> 0, length |-> length],
                            mem |-> mem, read |-> TRUE])} :
          bld' = [builds |-> bld.builds + 1, length |-> length, mem |-> mem,
                  table |-> t.mem, i |-> t.i, size |-> t.size,
                  sectors |-> t.sectors, prdt_set |-> t.prdt_set]
    /\ UNCHANGED <<engineVars, pio, otherVars>>

PrdInit == Init /\ prdt

PrdNext == \E length \in BuildLengths, mem \in BuildMems : build_descriptors(length, mem)

SpecPrd == PrdInit /\ [][PrdNext]_vars

\* the length the table describes: the request's length in whole sectors
WholeSectors(L) == ((L + SectorBytes - 1) \div SectorBytes) * SectorBytes

\* entries of 65536 bytes that cover L bytes
EntriesFor(L) == (L + PrdBytes - 1) \div PrdBytes

\* the build for a length of 1 .. 8192 * 65536 bytes succeeds with
\* EntriesFor(length) entries: all but the last have size field 0 (65536
\* bytes) and no EOT, the last has EOT and the size field last; the build for a
\* longer length fails
BuildIs(last) ==
    bld.builds > 0 =>
        /\ bld.length \in 1 .. MaxDmaBytes =>
              /\ bld.prdt_set
              /\ bld.i = EntriesFor(bld.length)
              /\ \A k \in 0 .. (bld.i - 1) :
                    \E e \in {prdt_load(bld.table, k)} :
                       /\ e.size = IF k < bld.i - 1 THEN 0 ELSE last
                       /\ e.eot = IF k = bld.i - 1 THEN PRD_EOT ELSE 0
        /\ bld.length > MaxDmaBytes => ~bld.prdt_set

\* C6 as stated: a length L in 1 .. 8192 * 65536 gives ceil(L / 65536)
\* entries, all but the last of 65536 bytes (size field 0), the last of
\* L mod 65536 bytes (65536, size field 0, when L is a multiple), EOT on the
\* last entry only; a longer length fails
C6_LastEntryIsLengthRemainder == BuildIs(bld.length % PrdBytes)

\* C6, amended: as above, but the last entry has the size of the remainder of
\* the length rounded up to whole sectors, ceil(L / 512) * 512 mod 65536
C6_LastEntryIsSectorRemainder == BuildIs(WholeSectors(bld.length) % PrdBytes)

\* a length of 65537 bytes built over the table of a longer request: two
\* entries, the second of 512 bytes with EOT
C6_Witness ==
    /\ bld.builds = 2
    /\ bld.length = 65537
    /\ bld.prdt_set /\ bld.i = 2
    /\ prdt_load(bld.table, 0) = [addr |-> AddrU32(bld.mem, 0), size |-> 0, eot |-> 0]
    /\ prdt_load(bld.table, 1) = [addr |-> AddrU32(bld.mem, 1), size |-> 512, eot |-> PRD_EOT]
    /\ prdt_stored(bld.table) = 0 .. (PrdtEntries - 1)

(***************************************************************************)
(* The PIO path: Disk::read and Disk::write call ata_pio, which calls      *)
(* ata_pio_small once per chunk.  The register layer is given by a script: *)
(* the status byte it shows at the script.poll-th error-checking poll of   *)
(* the call (none when script.poll = 0); at every other poll it shows the  *)
(* drive ready with data requested.  BSY is taken to clear, so the waits   *)
(* at lines 284 and 535, which read the status again on every turn, end.   *)
(***************************************************************************)
PioStatusReady == ATA_SR_DRDY + 16 + ATA_SR_DRQ

PioFaultStatus ==
    {ATA_SR_DRDY + ATA_SR_ERR, ATA_SR_DRDY + ATA_SR_DF + ATA_SR_DRQ, ATA_SR_DRDY + 16}

MaxFaultPoll == 3

Scripts ==
    {[poll |-> 0, state |-> PioStatusReady]}
        \cup [poll : 1 .. MaxFaultPoll, state : PioFaultStatus]

\* the value ide_poll returns when the status register shows state after BSY
\* has cleared
ide_poll(check_error, state) ==
    IF check_error
    THEN IF HasBit(state, ATA_SR_ERR) THEN 2
         ELSE IF HasBit(state, ATA_SR_DF) THEN 1
         ELSE IF ~HasBit(state, ATA_SR_DRQ) THEN 3
         ELSE 0
    ELSE 0

Ok(bytes) == [ok |-> TRUE, bytes |-> bytes]
Err == [ok |-> FALSE, err |-> "EIO"]

\* ata_pio_small that goes on to the next sector when ide_poll reports an
\* error
ata_pio_small_IgnoresErr(block, sectors, buf, write, script, before) ==
    IF buf > 0
    THEN [issued |-> TRUE, block |-> block, sectors |-> sectors, buf |-> buf,
          devsel |-> IF master THEN 64 ELSE 80,
          seccount1 |-> Byte(sectors, 256),
          seccount0 |-> Byte(sectors, 1),
          lba |-> <<Byte(block, 1), Byte(block, 256), Byte(block, 65536),
                    Byte(block, 16777216), 0, 0>>,
          command |-> IF write THEN ATA_CMD_WRITE_PIO_EXT ELSE ATA_CMD_READ_PIO_EXT,
          polls |-> sectors,
          err |-> IF script.poll - before \in 1 .. sectors
                  THEN ide_poll(TRUE, script.state) ELSE 0,
          words |-> sectors * SectorWords,
          flushes |-> IF write THEN sectors ELSE 0,
          ret |-> Ok(sectors * SectorBytes)]
    ELSE [issued |-> FALSE, block |-> block, sectors |-> sectors, buf |-> buf,
          polls |-> 0, err |-> 0, words |-> 0, flushes |-> 0, ret |-> Err]

\* One call of ata_pio_small; `before` error-checking polls were made earlier
\* in the same ata_pio call.  The for loop makes one error-checking poll per
\* turn and returns at the first that is not 0, so with f the turn at which
\* the script's status is shown: it runs f - 1 whole turns and the poll of
\* turn f when that status is an error and f is in 1 .. sectors, and all
\* `sectors` turns otherwise.  A whole turn moves 256 words and, on a write,
\* issues one CACHE_FLUSH_EXT.
ata_pio_small(block, sectors, buf, write, script, before) ==
    LET f == script.poll - before
        code == IF f \in 1 .. sectors THEN ide_poll(TRUE, script.state) ELSE 0
        turns == IF code > 0 THEN f - 1 ELSE sectors
    IN IF buf > 0
       THEN [issued |-> TRUE, block |-> block, sectors |-> sectors, buf |-> buf,
             devsel |-> IF master THEN 64 ELSE 80,
             seccount1 |-> Byte(sectors, 256),
             seccount0 |-> Byte(sectors, 1),
             lba |-> <<Byte(block, 1), Byte(block, 256), Byte(block, 65536),
                       Byte(block, 16777216), 0, 0>>,
             command |-> IF write THEN ATA_CMD_WRITE_PIO_EXT ELSE ATA_CMD_READ_PIO_EXT,
             polls |-> IF code > 0 THEN f ELSE sectors,
             err |-> code,
             words |-> turns * SectorWords,
             flushes |-> IF write THEN turns ELSE 0,
             ret |-> IF code > 0 THEN Err ELSE Ok(sectors * SectorBytes)]
       ELSE [issued |-> FALSE, block |-> block, sectors |-> sectors, buf |-> buf,
             polls |-> 0, err |-> 0, words |-> 0, flushes |-> 0, ret |-> Err]

RECURSIVE SumOf(_, _)
SumOf(chunks, field) ==
    IF chunks = <<>> THEN 0 ELSE Head(chunks)[field] + SumOf(Tail(chunks), field)

\* the while loop of ata_pio from `sector` on, with the chunks issued so far
RECURSIVE ata_pio_while(_, _, _, _, _, _, _)
ata_pio_while(block, sectors, buf, write, script, sector, chunks) ==
    IF sectors - sector >= PioChunkSectors
    THEN LET c == ata_pio_small(block + sector, 0, buf + sector * SectorBytes,
                                write, script, SumOf(chunks, "polls"))
         IN IF ~c.ret.ok
            THEN [chunks |-> Append(chunks, c), sector |-> sector, err |-> TRUE]
            ELSE ata_pio_while(block, sectors, buf, write, script,
                               sector + PioChunkSectors, Append(chunks, c))
    ELSE [chunks |-> chunks, sector |-> sector, err |-> FALSE]

\* ata_pio that hands the whole count to one ata_pio_small
ata_pio_OneChunk(block, sectors, buf, write, script) ==
    IF buf > 0 /\ sectors > 0
    THEN LET c == ata_pio_small(block, AsU16(sectors), buf, write, script, 0)
         IN [chunks |-> <<c>>, ret |-> IF c.ret.ok THEN Ok(sectors * SectorBytes) ELSE Err]
    ELSE [chunks |-> <<>>, ret |-> Err]

\* ata_pio without the test of buf and sectors
ata_pio_NoGuard(block, sectors, buf, write, script) ==
    LET w == ata_pio_while(block, sectors, buf, write, script, 0, <<>>)
    IN IF w.err THEN [chunks |-> w.chunks, ret |-> Err]
       ELSE IF w.sector < sectors
       THEN LET c == ata_pio_small(block + w.sector, AsU16(sectors - w.sector),
                                   buf + w.sector * SectorBytes, write, script,
                                   SumOf(w.chunks, "polls"))
            IN [chunks |-> Append(w.chunks, c),
                ret |-> IF c.ret.ok THEN Ok(sectors * SectorBytes) ELSE Err]
       ELSE [chunks |-> w.chunks, ret |-> Ok(sectors * SectorBytes)]

ata_pio(block, sectors, buf, write, script) ==
    IF buf > 0 /\ sectors > 0
    THEN LET w == ata_pio_while(block, sectors, buf, write, script, 0, <<>>)
         IN IF w.err THEN [chunks |-> w.chunks, ret |-> Err]
            ELSE IF w.sector < sectors
            THEN LET c == ata_pio_small(block + w.sector, AsU16(sectors - w.sector),
                                        buf + w.sector * SectorBytes, write, script,
                                        SumOf(w.chunks, "polls"))
                 IN [chunks |-> Append(w.chunks, c),
                     ret |-> IF c.ret.ok THEN Ok(sectors * SectorBytes) ELSE Err]
            ELSE [chunks |-> w.chunks, ret |-> Ok(sectors * SectorBytes)]
    ELSE [chunks |-> <<>>, ret |-> Err]

\* the call recorded with what it did
pio_call(block, len, ptr, write, script) ==
    \E res \in {ata_pio(block, len \div SectorBytes, ptr, write, script)} :
        pio' = [state |-> "done",
                call |-> [block |-> block, sectors |-> len \div SectorBytes,
                          buf |-> ptr, write |-> write, script |-> script],
                chunks |-> res.chunks,
                ret |-> res.ret]

\* Disk::read(block, buffer), buffer of len bytes at ptr
disk_read(block, len, ptr, script) ==
    /\ pio_call(block, len, ptr, FALSE, script)
    /\ UNCHANGED <<engineVars, bld, otherVars>>

\* Disk::write(block, buffer)
disk_write(block, len, ptr, script) ==
    /\ pio_call(block, len, ptr, TRUE, script)
    /\ UNCHANGED <<engineVars, bld, otherVars>>

PioBlocks == {0, 16777216 + 770}
PioLens ==
    {0, 511, 512, 700, 1024, 1536,
     65536 * SectorBytes, 65537 * SectorBytes, 65538 * SectorBytes,
     70000 * SectorBytes, 131072 * SectorBytes, 131073 * SectorBytes}
PioPtrs == {0, 1048576}

PioNext ==
    \/ \E block \in PioBlocks, len \in PioLens, ptr \in PioPtrs, script \in Scripts :
          disk_read(block, len, ptr, script)
    \/ \E block \in PioBlocks, len \in PioLens, ptr \in PioPtrs, script \in Scripts :
          disk_write(block, len, ptr, script)

\* the PRDT plays no part in the PIO path
PioInit == Init /\ prdt

SpecPio == PioInit /\ [][PioNext]_vars

\* the call is over, it was a transfer (a buffer and at least one sector) and
\* no poll of it showed the script's status as an error
PioSucceeded ==
    /\ pio.state = "done"
    /\ pio.call.sectors > 0 /\ pio.call.buf > 0
    /\ \A k \in 1 .. Len(pio.chunks) : pio.chunks[k].err = 0

\* sectors the c-th chunk (from 0) of an N-sector transfer covers
ChunkSectors(N, c) == IF c < N \div PioChunkSectors THEN PioChunkSectors ELSE N % PioChunkSectors

\* C8: a transfer of N > 0 sectors that meets no error issues one command per
\* chunk: N div 65536 chunks of 65536 sectors (count registers 0, 0), then
\* one of N mod 65536 sectors when that is not 0; chunk c starts at block
\* block + 65536 * c and at buffer offset 65536 * c * 512; the call returns
\* Ok(N * 512)
C8_PioChunks ==
    PioSucceeded =>
        \E N \in {pio.call.sectors} :
           /\ Len(pio.chunks) = N \div PioChunkSectors
                                  + IF N % PioChunkSectors # 0 THEN 1 ELSE 0
           /\ \A k \in 1 .. Len(pio.chunks) :
                 \E c \in {pio.chunks[k]} :
                    /\ c.issued
                    /\ c.block = pio.call.block + PioChunkSectors * (k - 1)
                    /\ c.buf = pio.call.buf + PioChunkSectors * (k - 1) * SectorBytes
                    /\ c.seccount1 * 256 + c.seccount0 = ChunkSectors(N, k - 1) % PioChunkSectors
                    /\ c.lba[1] + 256 * c.lba[2] + 65536 * c.lba[3] + 16777216 * c.lba[4] = c.block
                    /\ c.command = IF pio.call.write THEN ATA_CMD_WRITE_PIO_EXT
                                   ELSE ATA_CMD_READ_PIO_EXT
           /\ pio.ret = Ok(N * SectorBytes)

\* 70000 sectors: a chunk of 65536 and a chunk of 4464, 70000 * 512 returned
C8_Witness ==
    /\ PioSucceeded
    /\ pio.call.sectors = 70000
    /\ Len(pio.chunks) = 2
    /\ pio.chunks[1].seccount1 = 0 /\ pio.chunks[1].seccount0 = 0
    /\ pio.chunks[2].seccount1 * 256 + pio.chunks[2].seccount0 = 4464
    /\ pio.chunks[2].block = pio.call.block + 65536
    /\ pio.ret = Ok(70000 * 512)

\* C9: every chunk of a transfer that succeeds, a chunk of 65536 sectors
\* included, moves 256 words for each of its sectors, so N sectors move
\* N * 256 words and the bytes returned are the bytes moved
C9_WordsMoved ==
    (PioSucceeded /\ pio.ret.ok) =>
        /\ \A k \in 1 .. Len(pio.chunks) :
              pio.chunks[k].words = ChunkSectors(pio.call.sectors, k - 1) * SectorWords
        /\ SumOf(pio.chunks, "words") = pio.call.sectors * SectorWords
        /\ pio.ret.bytes = 2 * SumOf(pio.chunks, "words")

\* the script's status was shown as an error at some poll of the call
PioFaulted ==
    pio.state = "done" /\ \E k \in 1 .. Len(pio.chunks) : pio.chunks[k].err > 0

\* C10: when an error-checking poll returns a code that is not 0 the call
\* returns Err, which carries no byte count; the chunk of that poll is the
\* last one a command was issued for; that poll is the last poll of the call;
\* words were moved and flushes issued only for the sectors before it
C10_PioFaultAborts ==
    PioFaulted =>
        \E n \in {Len(pio.chunks)} :
           /\ pio.ret = Err
           /\ \A k \in 1 .. (n - 1) : pio.chunks[k].err = 0
           /\ pio.chunks[n].err = ide_poll(TRUE, pio.call.script.state)
           /\ SumOf(pio.chunks, "polls") = pio.call.script.poll
           /\ pio.chunks[n].words = (pio.chunks[n].polls - 1) * SectorWords
           /\ pio.chunks[n].flushes = IF pio.call.write THEN pio.chunks[n].polls - 1 ELSE 0
           /\ n <= pio.call.sectors \div PioChunkSectors + 1

\* a write of 65538 sectors whose second poll shows the device fault: the
\* first sector of the second chunk was written and flushed, the second not
C10_Witness ==
    /\ PioFaulted
    /\ pio.call.write /\ pio.call.sectors = 65538
    /\ pio.call.script.poll = 2
    /\ Len(pio.chunks) = 2
    /\ pio.chunks[2].err = 1
    /\ pio.chunks[2].words = SectorWords /\ pio.chunks[2].flushes = 1
    /\ ~pio.ret.ok

\* C11: a call with a null buffer address or with no whole sector returns Err
\* without a call of ata_pio_small: no command issued, no poll made, no word
\* moved, and the channel's registers as they were
C11_InvalidRequestRejected ==
    /\ [](pio.state = "done" /\ (pio.call.buf = 0 \/ pio.call.sectors = 0) =>
             /\ pio.ret = Err
             /\ pio.chunks = <<>>
             /\ SumOf(pio.chunks, "words") = 0)
    /\ [][(pio'.state = "done" /\ (pio'.call.buf = 0 \/ pio'.call.sectors = 0)) =>
             UNCHANGED <<io, ops, cmd, sts, prdt_reg>>]_vars

\* a read into a buffer of 511 bytes, and before it a write of 70000 sectors
\* from address 0, were both rejected
C11_Witness ==
    /\ pio.state = "done"
    /\ pio.call.sectors = 0 /\ pio.call.buf # 0 /\ ~pio.call.write
    /\ pio.ret = Err /\ pio.chunks = <<>>

\* the status bits ide_poll tests, in its order, as the claim names them
Classification(state) ==
    IF (state \div 1) % 2 = 1 THEN "DeviceError"
    ELSE IF (state \div 32) % 2 = 1 THEN "DeviceFault"
    ELSE IF (state \div 8) % 2 = 0 THEN "DataNotReady"
    ELSE "none"

ClassCode(class) ==
    IF class = "DeviceError" THEN 2
    ELSE IF class = "DeviceFault" THEN 1
    ELSE IF class = "DataNotReady" THEN 3
    ELSE 0

\* C12: the poll of a sector gives code 2 for ERR, else 1 for DF, else 3 for
\* DRQ clear, else 0 and the transfer goes on; and the error a failed call
\* returns tells the three apart: two calls that failed with different codes
\* return different errors
C12_ErrorCarriesClassification ==
    /\ [](PioFaulted =>
             pio.chunks[Len(pio.chunks)].err = ClassCode(Classification(pio.call.script.state)))
    /\ [][(PioFaulted /\ PioFaulted'
            /\ pio.chunks[Len(pio.chunks)].err # pio'.chunks[Len(pio'.chunks)].err)
             => pio.ret # pio'.ret]_vars

(***************************************************************************)
(* The bus scan: Ide::disks calls IdeDisk::new for the four positions in   *)
(* turn, and IdeDisk::new keeps the disk iff identify returns true.  The   *)
(* register layer of a position is given by three status bytes: the one    *)
(* the first read of STATUS shows, the one read right after IDENTIFY was   *)
(* issued, and the one the error-checking poll reads.  BSY is taken to     *)
(* clear, so the waits at lines 312 and 284 end.                           *)
(***************************************************************************)
PositionSeq ==
    <<[busmaster |-> 0, base |-> 496, ctrl |-> 1012, irq |-> 14, master |-> TRUE],
      [busmaster |-> 0, base |-> 496, ctrl |-> 1012, irq |-> 14, master |-> FALSE],
      [busmaster |-> 8, base |-> 368, ctrl |-> 884, irq |-> 15, master |-> TRUE],
      [busmaster |-> 8, base |-> 368, ctrl |-> 884, irq |-> 15, master |-> FALSE]>>

FloatingBus == 255

IdentScripts ==
    {[first |-> FloatingBus, after |-> FloatingBus, poll |-> FloatingBus],
     [first |-> ATA_SR_DRDY + 16, after |-> 0, poll |-> 0],
     [first |-> ATA_SR_DRDY + 16, after |-> PioStatusReady, poll |-> PioStatusReady],
     [first |-> 0, after |-> PioStatusReady, poll |-> PioStatusReady],
     [first |-> ATA_SR_DRDY + 16, after |-> PioStatusReady, poll |-> ATA_SR_DRDY + ATA_SR_ERR],
     [first |-> ATA_SR_DRDY + 16, after |-> PioStatusReady, poll |-> ATA_SR_DRDY + ATA_SR_DF + ATA_SR_DRQ],
     [first |-> ATA_SR_DRDY + 16, after |-> ATA_SR_DRDY + 16, poll |-> ATA_SR_DRDY + 16]}

\* the register writes of identify up to the IDENTIFY command, lines 316-327
identify_writes(p) ==
    <<Out(p.base + ATA_REG_HDDEVSEL, IF p.master THEN 160 ELSE 176),
      Out(p.base + ATA_REG_SECCOUNT0, 0),
      Out(p.base + ATA_REG_LBA0, 0),
      Out(p.base + ATA_REG_LBA1, 0),
      Out(p.base + ATA_REG_LBA2, 0),
      Out(p.base + ATA_REG_COMMAND, ATA_CMD_IDENTIFY)>>

\* identify without the test for a floating bus
identify_NoFloatingTest(p, hw) ==
    IF hw.after = 0
    THEN [ret |-> FALSE, writes |-> identify_writes(p), words |-> 0]
    ELSE IF ide_poll(TRUE, hw.poll) > 0
    THEN [ret |-> FALSE, writes |-> identify_writes(p), words |-> 0]
    ELSE [ret |-> TRUE, writes |-> identify_writes(p), words |-> SectorWords]

\* identify at position p over the register layer hw: what it returns, the
\* registers it wrote and the words it read from the data port
identify(p, hw) ==
    IF hw.first = FloatingBus
    THEN [ret |-> FALSE, writes |-> <<>>, words |-> 0]
    ELSE IF hw.after = 0
    THEN [ret |-> FALSE, writes |-> identify_writes(p), words |-> 0]
    ELSE IF ide_poll(TRUE, hw.poll) > 0
    THEN [ret |-> FALSE, writes |-> identify_writes(p), words |-> 0]
    ELSE [ret |-> TRUE, writes |-> identify_writes(p), words |-> SectorWords]

\* IdeDisk::new: Some(disk) iff identify returned true
IdeDisk_new(p, hw) == IF identify(p, hw).ret THEN <<p>> ELSE <<>>

\* ret after the pushes for the positions from k on
RECURSIVE disks_from(_, _)
disks_from(k, hw) ==
    IF k > Len(PositionSeq) THEN <<>>
    ELSE IdeDisk_new(PositionSeq[k], hw[k]) \o disks_from(k + 1, hw)

\* Ide::disks, over the register layers hw[1] .. hw[4] of the four positions
Ide_disks(hw) ==
    /\ ~scan.done
    /\ scan' = [done |-> TRUE,
                hw |-> hw,
                ident |-> [k \in 1 .. Len(PositionSeq) |-> identify(PositionSeq[k], hw[k])],
                ret |-> disks_from(1, hw)]
    /\ UNCHANGED <<engineVars, bld, pio, lk, ext, pci, wt, pair>>

ScanInit == Init /\ prdt /\ base = 496 /\ master

ScanNext == \E hw \in [1 .. Len(PositionSeq) -> IdentScripts] : Ide_disks(hw)

SpecScan == ScanInit /\ [][ScanNext]_vars

\* the positions, in scan order, whose identify returned true
Identified == SelectSeq(<<1, 2, 3, 4>>, LAMBDA k : scan.ident[k].ret)

\* C13: identify returns false for a first STATUS of 0xFF, having written no
\* register; for a STATUS of 0 after IDENTIFY; for an error-checking poll
\* that finds ERR, DF or no DRQ; and true otherwise.  Ide::disks returns the
\* disks of exactly the positions whose identify returned true, in scan order
C13_ScanKeepsIdentified ==
    scan.done =>
        /\ \A k \in 1 .. 4 :
              /\ scan.ident[k].ret =
                    ~(\/ scan.hw[k].first = 255
                      \/ scan.hw[k].after = 0
                      \/ Classification(scan.hw[k].poll) # "none")
              /\ scan.hw[k].first = 255 => scan.ident[k].writes = <<>>
        /\ Len(scan.ret) = Len(Identified)
        /\ \A j \in 1 .. Len(scan.ret) : scan.ret[j] = PositionSeq[Identified[j]]

\* the primary master floats, the primary slave answers 0 after IDENTIFY, the
\* secondary master fails the poll: only the secondary slave is returned
C13_Witness ==
    /\ scan.done
    /\ scan.hw[1].first = 255 /\ scan.hw[1].after = 255 /\ scan.hw[1].poll = 255
    /\ scan.hw[2].first # 255 /\ scan.hw[2].after = 0
    /\ scan.hw[3].after # 0 /\ Classification(scan.hw[3].poll) = "DeviceError"
    /\ scan.ident[4].ret
    /\ scan.ret = <<PositionSeq[4]>>

(***************************************************************************)
(* The two Intex of a channel, taken step by step.  sync::Intex is not     *)
(* among the sources; it is taken as the spec describes it, a region of    *)
(* mutual exclusion: lock() waits until the Intex is free and takes it,    *)
(* and the guard frees it when dropped.  The kernel thread runs            *)
(* IdeDisk::request and the dispatcher runs IdeDisk::on_poll; the steps of *)
(* the two interleave.  A guard made in a statement or in the condition of *)
(* an `if` is dropped at its end; the guards bound by `let` in             *)
(* next_request are dropped when it returns, which it does not do when the *)
(* wait at lines 510-513 has read a status that is not ready.              *)
(***************************************************************************)
MaxLockReq == 2

Contexts == {"thread", "poll"}

LockRequests == {r \in Requests : r.extent.block \in {100, 16777216 + 770}}

lkFrame == <<base, ctrl, master, busmaster, prdt, pc, bld, pio, scan, ext, pci, wt, pair>>

engineState == <<request, requests, complete, stores, started, hung, cmd, sts,
                 prdt_reg, prdt_mem, io, xfer, ops>>

\* IdeDisk::request is called with a new request
lk_request(r) ==
    /\ lk.thread = "out"
    /\ Len(submitted) < MaxLockReq
    /\ submitted' = Append(submitted, r)
    /\ Becomes([Cur EXCEPT !.complete = Append(@, FALSE), !.stores = Append(@, 0)])
    /\ lk' = [lk EXCEPT !.thread = "push_lock"]
    /\ op' = "request"
    /\ UNCHANGED lkFrame

\* self.requests.lock() at line 403
lk_push_lock ==
    /\ lk.thread = "push_lock"
    /\ lk.requests = "free"
    /\ lk' = [lk EXCEPT !.requests = "thread", !.thread = "push"]
    /\ op' = "request:requests.lock"
    /\ UNCHANGED <<lkFrame, submitted, engineState>>

\* push_back, and the guard dropped at the end of the statement
lk_push ==
    /\ lk.thread = "push"
    /\ Becomes([Cur EXCEPT !.requests = Append(@, Len(submitted))])
    /\ lk' = [lk EXCEPT !.requests = "free", !.thread = "check_lock"]
    /\ op' = "request:push"
    /\ UNCHANGED <<lkFrame, submitted>>

\* self.request.lock() at line 405
lk_check_lock ==
    /\ lk.thread = "check_lock"
    /\ lk.request = "free"
    /\ lk' = [lk EXCEPT !.request = "thread", !.thread = "check"]
    /\ op' = "request:request.lock"
    /\ UNCHANGED <<lkFrame, submitted, engineState>>

\* is_none(), and the guard dropped at the end of the condition
lk_check ==
    /\ lk.thread = "check"
    /\ lk' = [lk EXCEPT !.request = "free",
                        !.thread = IF request = 0 THEN "next_requests_lock" ELSE "out"]
    /\ op' = "request:check"
    /\ UNCHANGED <<lkFrame, submitted, engineState>>

\* on_poll up to the call of next_request
lk_on_poll ==
    /\ lk.poll = "out"
    /\ IF HasBit(sts, STS_INT)
       THEN /\ Becomes(sts_write(sts_read(Cur), sts))
            /\ lk' = [lk EXCEPT !.poll = "next_requests_lock"]
       ELSE /\ Becomes(sts_read(Cur))
            /\ UNCHANGED lk
    /\ op' = "on_poll"
    /\ UNCHANGED <<lkFrame, submitted>>

\* let mut requests = self.requests.lock() at line 420
lk_next_requests_lock(c) ==
    /\ lk[c] = "next_requests_lock"
    /\ lk.requests = "free"
    /\ lk' = [lk EXCEPT !.requests = c, ![c] = "next_request_lock"]
    /\ op' = "next_request:requests.lock"
    /\ UNCHANGED <<lkFrame, submitted, engineState>>

\* let mut request = self.request.lock() at line 421
lk_next_request_lock(c) ==
    /\ lk[c] = "next_request_lock"
    /\ lk.request = "free"
    /\ lk' = [lk EXCEPT !.request = c, ![c] = "next_body"]
    /\ op' = "next_request:request.lock"
    /\ UNCHANGED <<lkFrame, submitted, engineState>>

\* the body of next_request under both guards; it returns, dropping them,
\* unless it is caught in the wait of lines 510-513
lk_next_body(c, R) ==
    /\ lk[c] = "next_body"
    /\ next_request(Cur, R)
    /\ lk' = IF hung' THEN [lk EXCEPT ![c] = "spin"]
             ELSE [lk EXCEPT !.request = "free", !.requests = "free", ![c] = "out"]
    /\ op' = "next_request"
    /\ UNCHANGED <<lkFrame, submitted>>

LockInit == Init /\ prdt /\ base = 496

LockNext ==
    \/ \E r \in LockRequests : lk_request(r)
    \/ lk_push_lock
    \/ lk_push
    \/ lk_check_lock
    \/ lk_check
    \/ lk_on_poll
    \/ \E c \in Contexts : lk_next_requests_lock(c)
    \/ \E c \in Contexts : lk_next_request_lock(c)
    \/ \E c \in Contexts : lk_next_body(c, AtaStatusValues)
    \/ \E err \in BOOLEAN : hw_complete(err)

SpecLock == LockInit /\ [][LockNext]_vars

\* the Intex context c is about to take, if any
Wants(c) ==
    IF lk[c] \in {"push_lock", "next_requests_lock"} THEN "requests"
    ELSE IF lk[c] \in {"check_lock", "next_request_lock"} THEN "request"
    ELSE "none"

\* context c waits for an Intex whose holder will not free it: the holder is
\* caught in a wait that does not end, or itself waits for an Intex c holds
StuckWaiter(c) ==
    /\ Wants(c) # "none"
    /\ \E h \in Contexts :
          /\ lk[Wants(c)] = h
          /\ \/ lk[h] = "spin"
             \/ Wants(h) # "none" /\ lk[Wants(h)] = c

\* the order of C14: whoever is about to take the requests Intex does not hold
\* the request Intex, next_request takes requests before request, and
\* IdeDisk::request holds neither when it calls next_request
C14_LockOrder ==
    /\ \A c \in Contexts : Wants(c) = "requests" => lk.request # c
    /\ \A c \in Contexts : lk[c] = "next_request_lock" => lk.requests = c
    /\ lk.thread = "next_requests_lock" => lk.requests # "thread" /\ lk.request # "thread"

\* C14: the order above, and so no state in which an operation waits for an
\* Intex that will never be freed
C14_NoWaitOnHeldLock ==
    /\ C14_LockOrder
    /\ \A c \in Contexts : ~StuckWaiter(c)

(***************************************************************************)
(* Extent::empty, applied to extents drawn from the ends and the middle of *)
(* the range of block and length.                                          *)
(***************************************************************************)
ExtentBlocks == {0, 1, 2, 100, 511, 512, 65536, 16777216, 2147483647}
ExtentLengths == {0, 1, 2, 511, 512, 4096, 65536, 536870912, 2147483647}

\* empty without the test of the length
empty_BlockOnly(e) == e.block = 0

empty(e) == e.block = 0 \/ e.length = 0

Extent_empty ==
    /\ ~ext.called
    /\ ext' = [ext EXCEPT !.called = TRUE, !.empty = empty(ext.e)]
    /\ UNCHANGED <<engineVars, bld, pio, scan, lk, pci, wt, pair>>

ExtInit ==
    /\ EngineInit /\ prdt /\ base = 496 /\ master
    /\ bld = BldIdle /\ pio = PioIdle /\ scan = ScanIdle /\ lk = LkIdle /\ pci = PciIdle
    /\ wt = WtIdle /\ pair = PairIdle
    /\ \E block \in ExtentBlocks, length \in ExtentLengths :
          ext = [e |-> [block |-> block, length |-> length], called |-> FALSE, empty |-> FALSE]

ExtNext == Extent_empty

SpecExt == ExtInit /\ [][ExtNext]_vars

\* C15: empty() is true exactly when block = 0 or length = 0
C15_EmptyIffZero ==
    ext.called => (ext.empty <=> (ext.e.block = 0 \/ ext.e.length = 0))

\* empty() was true of an extent at a block other than 0 because its length is 0
C15_Witness ==
    ext.called /\ ext.empty /\ ext.e.block = 100 /\ ext.e.length = 0

(***************************************************************************)
(* PCI configuration space access of drivers/pci/device.rs.  The constants *)
(* of drivers/pci/common are not among the sources; the address and data   *)
(* ports are those PciConfig::new uses, and offset 4 is the COMMAND        *)
(* register as Ide::disks uses it.  The configuration mechanism latches    *)
(* the dword offset written to the address port and maps that dword onto   *)
(* the four data ports 0xCFC .. 0xCFF; the COMMAND register is the low     *)
(* half of the dword at offset 4.                                          *)
(***************************************************************************)
PCI_CONFIG_ADDRESS == 3320
PCI_CONFIG_DATA == 3324
PCI_CFG_COMMAND == 4

MaxPciOps == 2

\* a & b, a | b and a & !b on unsigned values
RECURSIVE BitAnd(_, _)
BitAnd(a, b) ==
    IF a = 0 \/ b = 0 THEN 0
    ELSE (IF a % 2 = 1 /\ b % 2 = 1 THEN 1 ELSE 0) + 2 * BitAnd(a \div 2, b \div 2)

RECURSIVE BitOr(_, _)
BitOr(a, b) ==
    IF a = 0 THEN b ELSE IF b = 0 THEN a
    ELSE (IF a % 2 = 1 \/ b % 2 = 1 THEN 1 ELSE 0) + 2 * BitOr(a \div 2, b \div 2)

RECURSIVE BitAndNot(_, _)
BitAndNot(a, b) ==
    IF a = 0 THEN 0
    ELSE (IF a % 2 = 1 /\ b % 2 = 0 THEN 1 ELSE 0) + 2 * BitAndNot(a \div 2, b \div 2)

\* Pio::new(PCI_CONFIG_ADDRESS).write(.. | (offset & 0xFC))
set_config_address(cfg, offset) == [cfg EXCEPT !.address = BitAnd(offset, 252)]

\* the port of the reads: PCI_CONFIG_DATA + (offset & 0x03) as u16 and
\* PCI_CONFIG_DATA + (offset & 0x02) as u16
config_get8_port(offset) == PCI_CONFIG_DATA + BitAnd(offset, 3)
config_get16_port(offset) == PCI_CONFIG_DATA + BitAnd(offset, 2)

\* the port of the writes: PCI_CONFIG_DATA + offset as u16 & 0x03 and
\* PCI_CONFIG_DATA + offset as u16 & 0x02, where + binds tighter than &
config_put8_port(offset) == BitAnd((PCI_CONFIG_DATA + offset) % 65536, 3)

config_put16_port(offset) == BitAnd((PCI_CONFIG_DATA + offset) % 65536, 2)

\* a 16-bit read of a port
pci_inw(cfg, port) ==
    IF port = PCI_CONFIG_DATA /\ cfg.address = PCI_CFG_COMMAND THEN cfg.command ELSE 0

\* a 16-bit write of a port
pci_outw(cfg, port, value) ==
    IF port = PCI_CONFIG_DATA /\ cfg.address = PCI_CFG_COMMAND
    THEN [cfg EXCEPT !.command = value]
    ELSE [cfg EXCEPT !.stray = Append(@, [port |-> port, value |-> value])]

config_get16(cfg, offset) ==
    LET a == set_config_address(cfg, offset)
    IN [cfg |-> a, value |-> pci_inw(a, config_get16_port(offset))]

config_put16(cfg, offset, value) ==
    pci_outw(set_config_address(cfg, offset), config_put16_port(offset), value)

set_command(value) ==
    /\ Len(pci.stray) < MaxPciOps
    /\ \E g \in {config_get16(pci, PCI_CFG_COMMAND)} :
          pci' = [config_put16(g.cfg, PCI_CFG_COMMAND, BitOr(g.value, value))
                     EXCEPT !.last = [op |-> "set_command", value |-> value, old |-> pci.command]]
    /\ UNCHANGED <<engineVars, bld, pio, scan, lk, ext, wt, pair>>

clear_command(value) ==
    /\ Len(pci.stray) < MaxPciOps
    /\ \E g \in {config_get16(pci, PCI_CFG_COMMAND)} :
          pci' = [config_put16(g.cfg, PCI_CFG_COMMAND, BitAndNot(g.value, value))
                     EXCEPT !.last = [op |-> "clear_command", value |-> value, old |-> pci.command]]
    /\ UNCHANGED <<engineVars, bld, pio, scan, lk, ext, wt, pair>>

\* IO space, memory space, both, bus master, INTx disable
CommandValues == {1, 2, 3, 4, 1024}
CommandResets == {0, 1, 3, 7, 1024, 1031, 65535}

PciInit ==
    /\ EngineInit /\ prdt /\ base = 496 /\ master
    /\ bld = BldIdle /\ pio = PioIdle /\ scan = ScanIdle /\ lk = LkIdle /\ ext = ExtIdle
    /\ wt = WtIdle /\ pair = PairIdle
    /\ \E c \in CommandResets : pci = [PciIdle EXCEPT !.command = c]

PciNext ==
    \/ \E value \in CommandValues : set_command(value)
    \/ \E value \in CommandValues : clear_command(value)

SpecPci == PciInit /\ [][PciNext]_vars

\* C16: the writes go to the data port the reads of the same offset use, so
\* after set_command(v) COMMAND is old | v, after clear_command(v) it is
\* old & !v, and no port outside the configuration data window is written
C16_CommandWritten ==
    pci.last.op # "none" =>
        /\ pci.last.op = "set_command" => pci.command = BitOr(pci.last.old, pci.last.value)
        /\ pci.last.op = "clear_command" => pci.command = BitAndNot(pci.last.old, pci.last.value)
        /\ pci.stray = <<>>
        /\ \A offset \in 0 .. 7 :
              /\ config_put16_port(offset) = config_get16_port(offset)
              /\ config_put8_port(offset) = config_get8_port(offset)

\* what the code does: the value goes to port 0 and COMMAND keeps its value
C16_Observed ==
    pci.last.op # "none" =>
        /\ pci.command = pci.last.old
        /\ pci.stray # <<>>
        /\ \A k \in 1 .. Len(pci.stray) : pci.stray[k].port = 0

(***************************************************************************)
(* Properties of single steps of the engine (specification Spec).          *)
(***************************************************************************)
\* the first n port accesses of the log
Prefix(log, n) == SubSeq(log, 1, IF Len(log) < n THEN Len(log) ELSE n)

\* C17: on_poll that reads INT set writes the value read back to the status
\* register and then, in the same step: with a current request, writes the
\* command register with only ACT cleared and stores true to that request's
\* flag, and to no other; makes the head of the queue current and the queue
\* its tail, or the channel idle when the queue is empty
C17_PollWithIntAdvances ==
    [][(on_poll(AtaStatusValues) /\ HasBit(sts, STS_INT)) =>
          /\ Prefix(ops', 2) = <<In(sts_port), Out(sts_port, sts)>>
          /\ request # 0 =>
                /\ SubSeq(ops', 3, 4) = <<In(cmd_port), Out(cmd_port, ClearBit(cmd, CMD_ACT))>>
                /\ complete'[request] /\ stores'[request] = stores[request] + 1
          /\ \A id \in Ids : id # request =>
                complete'[id] = complete[id] /\ stores'[id] = stores[id]
          /\ requests # <<>> =>
                /\ request' = Head(requests)
                /\ requests' = Tail(requests)
                /\ Len(requests') = Len(requests) - 1
          /\ requests = <<>> => request' = 0 /\ requests' = <<>>]_vars

\* a poll completed the first request and made the second current, the third
\* staying queued
C17_Witness ==
    /\ op = "on_poll"
    /\ Prefix(ops, 2) = <<In(sts_port), Out(sts_port, STS_INT)>>
    /\ Len(submitted) = 3
    /\ complete[1] /\ ~complete[2] /\ ~complete[3]
    /\ request = 2 /\ requests = <<3>>

\* a call of IdeDisk::request that found the channel idle is under way: the
\* request it submitted is neither current nor completed
SubmitOnIdle ==
    /\ pc \in {"pushed", "is_none"}
    /\ request = 0
    /\ ~complete[Len(submitted)]

\* C18: the push of IdeDisk::request appends the new request at the tail of
\* the queue and changes nothing else; with a current request the test that
\* follows ends the call, leaving current request, queue, flags, PRDT and
\* registers as they were; without one the call goes on to next_request,
\* which makes the submitted request current, and no poll comes between
C18_SubmitOnlyAppends ==
    /\ [][(\E r \in Requests : request_push(r)) =>
             /\ requests' = Append(requests, Len(submitted) + 1)
             /\ \A id \in Ids : complete'[id] = complete[id] /\ stores'[id] = stores[id]
             /\ ops' = <<>>
             /\ UNCHANGED <<request, started, cmd, sts, prdt_reg, prdt_mem, io, xfer>>]_vars
    /\ [][(request_check /\ request # 0) =>
             /\ pc' = "idle"
             /\ ops' = <<>>
             /\ UNCHANGED <<request, requests, complete, stores, started, cmd, sts,
                            prdt_reg, prdt_mem, io, xfer>>]_vars
    /\ [][((\E r \in Requests : request_push(r)) /\ request = 0) =>
             requests' = <<Len(submitted) + 1>>]_vars
    /\ [](SubmitOnIdle => requests = <<Len(submitted)>> /\ ~HasBit(sts, STS_INT))
    /\ [][(SubmitOnIdle /\ on_poll(AtaStatusValues)) => SubmitOnIdle']_vars
    /\ [][(SubmitOnIdle /\ request_check) => SubmitOnIdle' /\ pc' = "is_none"]_vars
    /\ [][(SubmitOnIdle /\ request_advance(AtaStatusValues)) =>
             request' = Len(submitted) /\ requests' = <<>> /\ pc' = "idle"]_vars

\* a third request was submitted while the first was current and the second
\* queued, and the call ended at the test
C18_Witness ==
    /\ op = "request:check" /\ pc = "idle"
    /\ request = 1 /\ requests = <<2, 3>>
    /\ xfer /\ ~complete[1]

\* the build of the PRDT for r does not end with prdt_set: the PRDT was not
\* allocated, the length is 0, or more than 8192 entries are needed
BuildFails(r) ==
    /\ ~MemIsZero(r.mem)
    /\ \/ ~prdt
       \/ r.extent.length = 0
       \/ EntriesNeeded(r.extent.length) > PrdtEntries

\* the current request is one whose build failed
Wedged == request # 0 /\ BuildFails(submitted[request])

\* C19: once a request whose build fails is current, no transfer runs and INT
\* is clear; it stays current and its flag stays false; every request
\* submitted after it is in the queue, in order, with its flag false; and
\* all this stays so whatever is called afterwards
C19_BuildFailureWedges ==
    /\ [](Wedged =>
             /\ ~complete[request] /\ stores[request] = 0
             /\ request \notin Range(started)
             /\ ~xfer /\ ~HasBit(sts, STS_INT) /\ ~HasBit(cmd, CMD_ACT)
             /\ requests = [k \in 1 .. (Len(submitted) - request) |-> request + k]
             /\ \A id \in Ids : id > request => ~complete[id])
    /\ [][Wedged => (Wedged' /\ request' = request)]_vars

\* the second request failed its build after the first completed; a third was
\* submitted and a poll made since
C19_Witness ==
    /\ Wedged
    /\ Len(submitted) = 3 /\ request = 2
    /\ complete[1] /\ ~complete[2] /\ ~complete[3]
    /\ requests = <<3>>
    /\ op = "on_poll" /\ pc = "idle"

\* the port accesses k .. Len(log) of a log
LogFrom(log, k) == SubSeq(log, k, Len(log))

\* C20: the step that starts the transfer of request r ends with these port
\* accesses, in this order: PRDT address; DEVSEL with 0x40 (master) or 0x50
\* (slave); the ports of SECCOUNT1, LBA3, LBA4, LBA5 with the high-order
\* bytes; the same ports again as SECCOUNT0, LBA0, LBA1, LBA2 with the
\* low-order bytes; the status read; the command port with READ_DMA_EXT or
\* WRITE_DMA_EXT; the bus-master command register with ACT, and DIR iff r is a
\* read.  No earlier access of the step writes the bus-master command register
\* with ACT set
C20_ProgrammingOrder ==
    [][started' # started =>
          \E r \in {submitted[request']}, n \in {Len(ops')} :
             /\ n >= 13
             /\ LogFrom(ops', n - 12) =
                   <<Out(prdt_port, "prdt.mem.ptr"),
                     Out(base + 6, IF master THEN 64 ELSE 80),
                     Out(base + 2, Byte((r.extent.length + 511) \div 512, 256)),
                     Out(base + 3, Byte(r.extent.block, 16777216)),
                     Out(base + 4, 0),
                     Out(base + 5, 0),
                     Out(base + 2, Byte((r.extent.length + 511) \div 512, 1)),
                     Out(base + 3, Byte(r.extent.block, 1)),
                     Out(base + 4, Byte(r.extent.block, 256)),
                     Out(base + 5, Byte(r.extent.block, 65536)),
                     In(base + 7),
                     Out(base + 7, IF r.read THEN ATA_CMD_READ_DMA_EXT
                                   ELSE ATA_CMD_WRITE_DMA_EXT),
                     Out(busmaster, IF r.read THEN CMD_ACT + CMD_DIR ELSE CMD_ACT)>>
             /\ \A k \in 1 .. (n - 1) :
                   ~(ops'[k].op = "out" /\ ops'[k].port = busmaster
                     /\ HasBit(ops'[k].val, CMD_ACT))
             /\ started' = Append(started, request')]_vars

\* a poll completed a transfer and started a write on a slave drive
C20_Witness ==
    /\ op = "on_poll"
    /\ Len(started) = 2 /\ request = started[2]
    /\ ~submitted[request].read /\ ~master
    /\ cmd = CMD_ACT /\ xfer
    /\ ops[Len(ops)] = Out(busmaster, CMD_ACT)

(***************************************************************************)
(* The two waits of next_request (lines 439-441 and 510-513), one loop     *)
(* iteration at a time, on a drive whose status register changes while the *)
(* driver waits and at some point settles with BSY clear and DRDY set.     *)
(***************************************************************************)
\* calls of next_request that pop a request, in one behaviour
MaxWaitCalls == 2

\* BSY clear and DRDY set
Ready(status) == ~HasBit(status, ATA_SR_BSY) /\ HasBit(status, ATA_SR_DRDY)

\* request (submit on an idle channel) or on_poll (INT set) calls next_request,
\* which pops r and reaches the first wait
wait_call(c, r) ==
    /\ wt.pc = "out" /\ wt.calls < MaxWaitCalls
    /\ wt' = [wt EXCEPT !.pc = "bsy_wait", !.caller = c, !.r = r, !.status = 0,
                        !.calls = @ + 1, !.started = 0]
    /\ UNCHANGED <<engineVars, bld, pio, scan, lk, ext, pci, pair>>

\* one test of `while self.ide_read(ATA_REG_STATUS) & ATA_SR_BSY == ATA_SR_BSY`:
\* the register is read at every test.  After the loop the PRDT is built and,
\* with prdt_set, the task file written; without it next_request returns
wait_bsy ==
    /\ wt.pc = "bsy_wait"
    /\ wt' = IF HasBit(wt.ata, ATA_SR_BSY) THEN wt
             ELSE IF ~MemIsZero(wt.r.mem) /\ prdt /\ BuildPrdt(<<>>, wt.r).prdt_set
             THEN [wt EXCEPT !.pc = "taskfile"]
             ELSE [wt EXCEPT !.pc = "out"]
    /\ UNCHANGED <<engineVars, bld, pio, scan, lk, ext, pci, pair>>

\* let mut status = self.ide_read(ATA_REG_STATUS)
wait_status_read ==
    /\ wt.pc = "taskfile"
    /\ wt' = [wt EXCEPT !.pc = "rdy_wait", !.status = wt.ata]
    /\ UNCHANGED <<engineVars, bld, pio, scan, lk, ext, pci, pair>>

\* one test of `while (status & ATA_SR_BSY == ATA_SR_BSY) ||
\* (status & ATA_SR_DRDY != ATA_SR_DRDY)`: the body is empty and status is the
\* local variable.  After the loop the command is issued, ACT set, and
\* next_request returns
wait_rdy ==
    /\ wt.pc = "rdy_wait"
    /\ wt' = IF ~Ready(wt.status) THEN wt
             ELSE [wt EXCEPT !.pc = "out", !.started = @ + 1]
    /\ UNCHANGED <<engineVars, bld, pio, scan, lk, ext, pci, pair>>

\* the drive changes its status register
drive_status(v) ==
    /\ ~wt.settled /\ wt.ata # v
    /\ wt' = [wt EXCEPT !.ata = v]
    /\ UNCHANGED <<engineVars, bld, pio, scan, lk, ext, pci, pair>>

\* the drive responds: from now on the register reads BSY clear, DRDY set
drive_settle ==
    /\ ~wt.settled
    /\ wt' = [wt EXCEPT !.ata = ATA_SR_DRDY + 16, !.settled = TRUE]
    /\ UNCHANGED <<engineVars, bld, pio, scan, lk, ext, pci, pair>>

WaitCallers == {"request", "on_poll"}

WaitInit == Init /\ base = 496 /\ master

WaitNext ==
    \/ \E c \in WaitCallers, r \in Requests : wait_call(c, r)
    \/ wait_bsy
    \/ wait_status_read
    \/ wait_rdy
    \/ \E v \in AtaStatusValues : drive_status(v)
    \/ drive_settle

\* the processor keeps running the loop it is in
SpecWait ==
    /\ WaitInit
    /\ [][WaitNext]_vars
    /\ WF_vars(wait_bsy)
    /\ WF_vars(wait_status_read)
    /\ WF_vars(wait_rdy)

\* C21: if from some point on the status register reads BSY clear and DRDY
\* set, every call of next_request (from request or from on_poll) that has
\* reached a wait returns
C21_WaitsTerminate ==
    (<>[]Ready(wt.ata)) => [](wt.pc # "out" => <>(wt.pc = "out"))

\* what holds instead: the first wait ends once the register reads BSY clear;
\* the second ends only if the one read before it showed the drive ready
C21_Observed ==
    /\ (<>[]Ready(wt.ata)) => [](wt.pc = "bsy_wait" => <>(wt.pc # "bsy_wait"))
    /\ [][(wt.pc = "rdy_wait" /\ ~Ready(wt.status)) => wt'.pc = "rdy_wait"]_vars

\* a status byte without its ERR and DF bits
NoFault(status) == ClearBit(ClearBit(status, ATA_SR_ERR), ATA_SR_DF)

\* where on_poll leaves the driver and the hardware when it finds INT set in
\* state d and the status read before the second wait returns `status`
PollOutcome(d, status) ==
    LET a == pop_front(finish_current(sts_write(sts_read(d), d.sts)))
    IN IF a.request # 0 THEN start_request(a, submitted[a.request], status) ELSE a

\* C22: on_poll that finds INT set stores true to the current request's flag
\* and makes the head of the queue current whatever the ERR bit of the
\* bus-master status and the ERR and DF bits of the ATA status are: the state
\* it leaves is the one it leaves when these bits are clear (the log of port
\* accesses differs in the status value written back)
C22_ErrorBitsIgnored ==
    [][(on_poll(AtaStatusValues) /\ HasBit(sts, STS_INT)) =>
          /\ request # 0 => complete'[request] /\ stores'[request] = stores[request] + 1
          /\ request' = IF requests = <<>> THEN 0 ELSE Head(requests)
          /\ \E status \in AtaStatusValues :
                \E e \in {PollOutcome([Cur EXCEPT !.sts = ClearBit(sts, STS_ERR)],
                                      NoFault(status))} :
                   /\ request' = e.request /\ requests' = e.requests
                   /\ complete' = e.complete /\ stores' = e.stores
                   /\ started' = e.started /\ hung' = e.hung
                   /\ cmd' = e.cmd /\ sts' = e.sts /\ xfer' = e.xfer
                   /\ prdt_reg' = e.prdt_reg /\ prdt_mem' = e.prdt_mem
                   /\ io' = e.io]_vars

\* the first transfer ended with ERR set; the poll that followed wrote INT and
\* ERR back, completed the request and started the second
C22_Witness ==
    /\ op = "on_poll"
    /\ Len(ops) >= 2 /\ ops[2] = Out(sts_port, STS_INT + STS_ERR)
    /\ Len(submitted) >= 2
    /\ complete[1] /\ ~complete[2]
    /\ started = <<1, 2>> /\ xfer

(***************************************************************************)
(* Properties of the table as a whole (SpecPrd).                           *)
(***************************************************************************)
\* bytes an entry describes: a size field of 0 stands for 65536
PrdByteCount(e) == IF e.size = 0 THEN PrdBytes ELSE e.size

\* sum of the size fields of the entries with indices in S
RECURSIVE SizeFieldSum(_)
SizeFieldSum(S) ==
    IF S = {} THEN 0
    ELSE LET k == CHOOSE x \in S : TRUE
         IN prdt_load(bld.table, k).size + SizeFieldSum(S \ {k})

\* bytes described by the entries 0 .. bld.i - 1 of the table
TableBytes ==
    LET zero == {k \in 0 .. (bld.i - 1) : prdt_load(bld.table, k).size = 0}
    IN Cardinality(zero) * PrdBytes + SizeFieldSum((0 .. (bld.i - 1)) \ zero)

\* C23: when the build ends with prdt_set, the entries 0 .. i-1 describe
\* ceil(length / 512) * 512 bytes in all; entry k has the address
\* mem + k * 65536 truncated to 32 bits; every entry but the last describes
\* 65536 bytes, so each entry starts where the one before it ends (modulo 2^32)
C23_TableCoversRequest ==
    (bld.builds > 0 /\ bld.prdt_set) =>
        /\ bld.i >= 1
        /\ TableBytes = ((bld.length + 511) \div 512) * 512
        /\ \A k \in 0 .. (bld.i - 1) :
              \E e \in {prdt_load(bld.table, k)} :
                 /\ e.addr.lo = bld.mem.lo
                 /\ e.addr.hi = (bld.mem.hi + k) % 65536
                 /\ k < bld.i - 1 => PrdByteCount(e) = PrdBytes

\* 100000 bytes at 0xFFFF1000, built over the table of an earlier request: two
\* entries of 65536 and 34816 bytes, the second at the truncated address
\* 0x00001000
C23_Witness ==
    /\ bld.builds = 2 /\ bld.prdt_set
    /\ bld.length = 100000 /\ bld.mem = Mem(65535, 4096)
    /\ bld.i = 2
    /\ prdt_load(bld.table, 0).addr = Mem(65535, 4096)
    /\ prdt_load(bld.table, 1).addr = Mem(0, 4096)
    /\ TableBytes = 100352

\* no call of IdeDisk::request or IdeDisk::on_poll is under way
Quiescent == pc = "idle" /\ ~hung

\* C24: whenever no driver operation is under way and there is no current
\* request, the queue is empty
C24_IdleQueueEmpty == (Quiescent /\ request = 0) => requests = <<>>

\* two requests were submitted and served; the poll that completed the second
\* left the channel idle
C24_Witness ==
    /\ Quiescent /\ request = 0 /\ requests = <<>>
    /\ Len(submitted) = 2 /\ complete[1] /\ complete[2]
    /\ op = "on_poll" /\ started = <<1, 2>>

\* the sector count in the task file: the byte written to the count port
\* before the last one (SECCOUNT1) and the last one (SECCOUNT0)
SectorCountField ==
    io[ide_port(ATA_REG_SECCOUNT0)].prev * 256 + io[ide_port(ATA_REG_SECCOUNT0)].cur

\* sectors a 16-bit count field stands for
SectorsDenoted(field) == IF field = 0 THEN 65536 ELSE field

\* C25: while the transfer of the current request runs, the count in the task
\* file stands for ceil(length / 512) sectors, the length of the PRDT built
\* for the request
C25_SectorCountExact ==
    xfer => SectorsDenoted(SectorCountField) = (submitted[request].extent.length + 511) \div 512

\* what holds instead: the field is ceil(length / 512) modulo 65536, which
\* stands for the request's sectors only up to 65536 of them
C25_Observed ==
    xfer =>
        \E sectors \in {(submitted[request].extent.length + 511) \div 512} :
           /\ SectorCountField = sectors % 65536
           /\ sectors <= 65536 => SectorsDenoted(SectorCountField) = sectors
           /\ prdt_load(prdt_mem, 0).addr = AddrU32(submitted[request].mem, 0)

(***************************************************************************)
(* Two IdeDisks on one cable.  Ide::disks creates the master and the slave *)
(* of a cable with the same busmaster, base and ctrl, so both drivers use  *)
(* the same bus-master command, status and PRDT-address ports and the same *)
(* task file; each has its own current request, queue and PRDT memory.     *)
(* The engine variables are this IdeDisk, pair.sib is the other one.       *)
(***************************************************************************)
\* requests submitted to each of the two drives in one behaviour
MaxPairReq == 2

\* a read and a write
PairRequests == {r \in Requests : r.extent.block \in {100, 16777216 + 770}}

\* the sibling's IdeDisk over the hardware it shares with this one
SibCur ==
    [request |-> pair.sib.request, requests |-> pair.sib.requests,
     complete |-> pair.sib.complete, stores |-> pair.sib.stores,
     started |-> pair.sib.started, hung |-> hung, cmd |-> cmd, sts |-> sts,
     prdt_reg |-> prdt_reg, prdt_mem |-> pair.sib.prdt_mem, io |-> io,
     xfer |-> xfer, ops |-> <<>>, master |-> ~master]

\* d is what a call on the sibling leaves behind, sub the requests handed to it
SibBecomes(d, sub) ==
    /\ pair' = [pair EXCEPT !.sib =
                   [request |-> d.request, requests |-> d.requests, submitted |-> sub,
                    complete |-> d.complete, stores |-> d.stores,
                    started |-> d.started, prdt_mem |-> d.prdt_mem]]
    /\ hung' = d.hung
    /\ cmd' = d.cmd
    /\ sts' = d.sts
    /\ prdt_reg' = d.prdt_reg
    /\ io' = d.io
    /\ xfer' = d.xfer
    /\ ops' = d.ops
    /\ UNCHANGED <<base, ctrl, master, busmaster, prdt, request, requests, submitted,
                   complete, pc, prdt_mem, stores, started, bld, pio, scan, lk,
                   ext, pci, wt>>

\* next_request of the sibling, entered in state d
sib_next_request(d, sub, status) ==
    LET a == pop_front(finish_current(d))
    IN IF a.request # 0 THEN start_request(a, sub[a.request], status) ELSE a

\* IdeDisk::request on the sibling, called by the kernel thread when it is
\* not inside a call on this drive
sib_request(r, R) ==
    /\ pc = "idle" /\ ~hung
    /\ Len(pair.sib.submitted) < MaxPairReq
    /\ \E sub \in {Append(pair.sib.submitted, r)} :
          \E pushed \in {[SibCur EXCEPT !.requests = Append(@, Len(sub)),
                                        !.complete = Append(@, FALSE),
                                        !.stores = Append(@, 0)]} :
             IF pushed.request = 0
             THEN \E status \in R : SibBecomes(sib_next_request(pushed, sub, status), sub)
             ELSE SibBecomes(pushed, sub)
    /\ op' = "sibling:request"

\* IdeDisk::on_poll on the sibling
sib_on_poll(R) ==
    /\ ~hung
    /\ LET a == sts_read(SibCur)
       IN IF HasBit(sts, STS_INT)
          THEN \E status \in R :
                  SibBecomes(sib_next_request(sts_write(a, sts), pair.sib.submitted,
                                              status),
                             pair.sib.submitted)
          ELSE SibBecomes(a, pair.sib.submitted)
    /\ op' = "sibling:on_poll"

\* the drive that took the DMA command: the one selected in the task file
Selected ==
    IF io[ide_port(ATA_REG_HDDEVSEL)].cur = (IF master THEN 64 ELSE 80)
    THEN "self" ELSE "sib"

\* the selected drive ends the transfer it is carrying out: the bus master
\* raises INT and drops ACT.  The request the transfer was started for is
\* recorded with the drive
pair_hw_complete(err) ==
    /\ xfer
    /\ xfer' = FALSE
    /\ sts' = LET a == SetBit(ClearBit(sts, STS_ACT), STS_INT)
              IN IF err THEN SetBit(a, STS_ERR) ELSE a
    /\ pair' = IF Selected = "self"
               THEN [pair EXCEPT !.raised.self = @ \cup {started[Len(started)]},
                                 !.last = "self"]
               ELSE [pair EXCEPT !.raised.sib =
                                    @ \cup {pair.sib.started[Len(pair.sib.started)]},
                                 !.last = "sib"]
    /\ UNCHANGED <<base, ctrl, master, busmaster, prdt, request, requests, submitted,
                   complete, pc, hung, cmd, prdt_reg, prdt_mem, io, stores,
                   started, op, ops, bld, pio, scan, lk, ext, pci, wt>>

\* the primary cable; both PRDTs were allocated
PairInit == Init /\ prdt /\ base = 496

PairNext ==
    \/ \E r \in PairRequests : Len(submitted) < MaxPairReq /\ request_push(r)
    \/ request_check
    \/ request_advance(ReadyStatus)
    \/ on_poll(ReadyStatus)
    \/ \E r \in PairRequests : sib_request(r, ReadyStatus)
    \/ sib_on_poll(ReadyStatus)
    \/ \E err \in BOOLEAN : pair_hw_complete(err)

SpecPair == PairInit /\ [][PairNext]_vars

\* C26: on either drive a completion flag is true only if the transfer
\* started for that request has raised INT, and an on_poll that finds INT set
\* is the on_poll of the drive whose transfer raised it
C26_IntBelongsToDrive ==
    /\ [](\A id \in 1 .. MaxPairReq :
             /\ (id \in Ids /\ complete[id]) => id \in pair.raised.self
             /\ (id <= Len(pair.sib.submitted) /\ pair.sib.complete[id])
                   => id \in pair.raised.sib)
    /\ [][(on_poll(ReadyStatus) /\ HasBit(sts, STS_INT)) => pair.last = "self"]_vars
    /\ [][(sib_on_poll(ReadyStatus) /\ HasBit(sts, STS_INT)) => pair.last = "sib"]_vars

(***************************************************************************)
(* Requests with a null address or a length of zero (SpecLive).            *)
(***************************************************************************)
ZeroRequest(r) == MemIsZero(r.mem) \/ r.extent.length = 0

\* C27: a valid request is eventually completed when every request submitted
\* before it was valid or had a null address or a length of zero: such a
\* request does not keep the ones behind it from being served
C27_ZeroRequestDoesNotBlock ==
    \A id \in 1 .. MaxLiveReq :
        (/\ id \in Ids /\ prdt /\ Valid(submitted[id])
         /\ \A j \in 1 .. (id - 1) : Valid(submitted[j]) \/ ZeroRequest(submitted[j]))
            ~> (id \in Ids /\ complete[id])

\* what holds instead: a request with a null address or a length of zero is
\* never started, and once it is the current request it stays so with its
\* flag false
C27_Observed ==
    /\ [](\A id \in Range(started) : ~ZeroRequest(submitted[id]))
    /\ []((request # 0 /\ ZeroRequest(submitted[request])) =>
             ~complete[request] /\ ~xfer /\ ~HasBit(sts, STS_INT))
    /\ [][(request # 0 /\ ZeroRequest(submitted[request])) => request' = request]_vars

=============================================================================
